---- MODULE Spec2Model ----
(***************************************************************************)
(* scripts/clip2_process.py: a one-shot command-line program that imports  *)
(* its dependencies, optionally runs a CLIP image encoder on one image and *)
(* prints one JSON document.                                               *)
(*                                                                         *)
(* Text is a sequence of chunks: a chunk is either one of the characters   *)
(* json.dumps has to escape (SpecialChars) or a run of ordinary printable  *)
(* ASCII characters.  A float is a record: finite values are fixed-point   *)
(* integers (v / Scale), and nan / inf are kept apart as IEEE-754 does.    *)
(***************************************************************************)
EXTENDS Integers, Sequences, FiniteSets, TLC

\* ------------------------------------------------------------------ bounds
\* MaxPathLen: chunks in a path; FeatMax: largest feature component;
\* Scale: fixed-point unit of a float; Prec: extra precision of the norm
MaxPathLen == 1
FeatMax == 1
Scale == 10000
Prec == 400

\* ------------------------------------------------------- program constants
EmbeddingDim == 512
ProjectionDim == 512

\* -------------------------------------------------------------------- text
SpecialChars == {"\"", "\\", "\n"}
Chars == {"a"} \cup SpecialChars

RECURSIVE TextsOfLen(_)
TextsOfLen(n) ==
    IF n = 0 THEN {<<>>}
    ELSE {Append(t, c) : t \in TextsOfLen(n - 1), c \in Chars}

Paths == UNION {TextsOfLen(n) : n \in 0..MaxPathLen}

ScriptName == <<"clip2_process.py">>

\* What may follow the image path on the command line; the program ignores it
ExtraArgs == {<<>>, <<<<"extra">>>>}

Argvs ==
    {<<ScriptName>>}
    \cup {<<ScriptName, p>> \o rest : p \in Paths, rest \in ExtraArgs}

\* ------------------------------------------------------------------ floats
Fin(v) == [k |-> "fin", v |-> v]
NaN == [k |-> "nan", v |-> 0]
Inf(sign) == [k |-> "inf", v |-> sign]
Zero == Fin(0)

\* -------------------------------------------------------- python values
PyStr(s) == [ty |-> "str", s |-> s, l |-> <<>>]
PyList(l) == [ty |-> "list", s |-> <<>>, l |-> l]
Item(key, value) == [k |-> key, v |-> value]

Keys(dict) == [i \in 1..Len(dict) |-> dict[i].k]

\* [0.0] * 512
ZeroEmbedding == [i \in 1..EmbeddingDim |-> Zero]

\* ------------------------------------------------------------ json.dumps
\* A JSON text is a sequence of lexemes; the insignificant blanks json.dumps
\* writes after ',' and ':' belong to the punctuation lexeme.
Lex(t, s, n) == [t |-> t, s |-> s, n |-> n]
Punct(p) == Lex(p, <<>>, 0)
StrLex(s) == Lex("string", s, 0)
NumLex(v) == Lex("number", <<>>, v)

\* json.encoder.ESCAPE_DCT (ensure_ascii=True)
EscapeChunk(c) ==
    CASE c = "\"" -> "\\\""
      [] c = "\\" -> "\\\\"
      [] c = "\n" -> "\\n"
      [] OTHER -> c

\* json.encoder.py_encode_basestring_ascii, without the enclosing quotes
Escape(s) == [i \in 1..Len(s) |-> EscapeChunk(s[i])]

\* json.encoder floatstr (allow_nan=True): float.__repr__ for finite values,
\* the bare words NaN, Infinity and -Infinity otherwise
FloatLex(f) ==
    CASE f.k = "fin" -> NumLex(f.v)
      [] f.k = "nan" -> Punct("NaN")
      [] f.k = "inf" -> IF f.v > 0 THEN Punct("Infinity") ELSE Punct("-Infinity")

DumpsList(l) ==
    <<Punct("[")>>
    \o [j \in 1..(IF Len(l) = 0 THEN 0 ELSE 2 * Len(l) - 1) |->
          IF j % 2 = 1 THEN FloatLex(l[(j + 1) \div 2]) ELSE Punct(",")]
    \o <<Punct("]")>>

DumpsValue(v) == IF v.ty = "str" THEN <<StrLex(Escape(v.s))>> ELSE DumpsList(v.l)

RECURSIVE DumpsItems(_, _)
DumpsItems(dict, i) ==
    IF i > Len(dict) THEN <<>>
    ELSE (IF i > 1 THEN <<Punct(",")>> ELSE <<>>)
         \o <<StrLex(Escape(dict[i].k)), Punct(":")>>
         \o DumpsValue(dict[i].v)
         \o DumpsItems(dict, i + 1)

\* json.dumps(obj) for a dict of str -> str | list of float
Dumps(dict) == <<Punct("{")>> \o DumpsItems(dict, 1) \o <<Punct("}")>>

\* A line print() wrote that is no JSON rendering (a warning, a traceback)
RawLine(text) == <<Lex("raw", text, 0)>>

\* ------------------------------------------------- a strict JSON decoder
\* RFC 8259: inside a string a quote, a backslash and a control character
\* appear only escaped; NaN and Infinity are no number literals.
ValidStringBody(s) == \A i \in 1..Len(s) : s[i] \notin SpecialChars

UnescapeChunk(c) ==
    CASE c = "\\\"" -> "\""
      [] c = "\\\\" -> "\\"
      [] c = "\\n" -> "\n"
      [] OTHER -> c

Unescape(s) == [i \in 1..Len(s) |-> UnescapeChunk(s[i])]

IsString(lx) == lx.t = "string" /\ ValidStringBody(lx.s)

Failed == [ok |-> FALSE, v |-> PyStr(<<>>), next |-> 0]

\* The array that opens at toks[i]: numbers separated by commas up to the
\* first closing bracket.
ParseArray(toks, i) ==
    LET closing == {j \in (i + 1)..Len(toks) : toks[j].t = "]"}
    IN  IF closing = {} THEN Failed
        ELSE LET j == CHOOSE x \in closing : \A y \in closing : x <= y
                 n == j - i - 1
             IN  IF n = 0 THEN [ok |-> TRUE, v |-> PyList(<<>>), next |-> j + 1]
                 ELSE IF n % 2 = 1
                         /\ \A m \in 1..n :
                              toks[i + m].t = (IF m % 2 = 1 THEN "number" ELSE ",")
                      THEN [ok |-> TRUE,
                            v |-> PyList([m \in 1..((n + 1) \div 2) |->
                                            Fin(toks[i + 2 * m - 1].n)]),
                            next |-> j + 1]
                      ELSE Failed

ParseValue(toks, i) ==
    IF i > Len(toks) THEN Failed
    ELSE IF IsString(toks[i])
         THEN [ok |-> TRUE, v |-> PyStr(Unescape(toks[i].s)), next |-> i + 1]
         ELSE IF toks[i].t = "[" THEN ParseArray(toks, i)
         ELSE Failed

NoDoc == [ok |-> FALSE, doc |-> <<>>]

\* The members key: value, ... from toks[i] to the closing brace, which must
\* be the last lexeme.
RECURSIVE ParseMembers(_, _, _)
ParseMembers(toks, i, acc) ==
    IF i + 2 > Len(toks) \/ ~IsString(toks[i]) \/ toks[i + 1].t # ":" THEN NoDoc
    ELSE LET val == ParseValue(toks, i + 2)
         IN  IF ~val.ok \/ val.next > Len(toks) THEN NoDoc
             ELSE LET got == Append(acc, Item(Unescape(toks[i].s), val.v))
                  IN  IF toks[val.next].t = "}"
                      THEN IF val.next = Len(toks)
                           THEN [ok |-> TRUE, doc |-> got]
                           ELSE NoDoc
                      ELSE IF toks[val.next].t = ","
                           THEN ParseMembers(toks, val.next + 1, got)
                           ELSE NoDoc

\* json.loads(text) of a strict decoder, for a text that is one object
Loads(toks) ==
    IF Len(toks) < 2 \/ toks[1].t # "{" THEN NoDoc
    ELSE IF Len(toks) = 2
         THEN (IF toks[2].t = "}" THEN [ok |-> TRUE, doc |-> <<>>] ELSE NoDoc)
         ELSE ParseMembers(toks, 2, <<>>)

\* The line holds no raw line break
SingleLine(toks) ==
    \A i \in 1..Len(toks) : \A j \in 1..Len(toks[i].s) : toks[i].s[j] # "\n"

\* ------------------------------------------------------------ tensor math
RECURSIVE SumSq(_, _, _)
SumSq(vec, lo, hi) ==
    IF lo > hi THEN 0
    ELSE IF lo = hi THEN vec[lo].v * vec[lo].v
    ELSE LET mid == (lo + hi) \div 2
         IN  SumSq(vec, lo, mid) + SumSq(vec, mid + 1, hi)

RECURSIVE ISqrtIn(_, _, _)
ISqrtIn(n, lo, hi) ==
    IF lo = hi THEN lo
    ELSE LET mid == (lo + hi + 1) \div 2
         IN  IF mid * mid <= n THEN ISqrtIn(n, mid, hi) ELSE ISqrtIn(n, lo, mid - 1)

\* floor of the square root, for n below 2^31
ISqrt(n) == ISqrtIn(n, 0, 46340)

\* Tensor.norm(dim=-1, keepdim=True) of one row of finite values: the
\* Euclidean norm, carried with Prec times the precision of the components.
Norm(vec) == ISqrt(SumSq(vec, 1, Len(vec)) * Prec * Prec)

\* IEEE-754 division of a finite x by a norm (which is never negative),
\* rounded to the nearest representable value
Div(x, norm) ==
    IF norm = 0
    THEN (IF x.v = 0 THEN NaN ELSE Inf(IF x.v > 0 THEN 1 ELSE -1))
    ELSE Fin((2 * x.v * Scale * Prec + norm) \div (2 * norm))

\* image_features / image_features.norm(dim=-1, keepdim=True), row by row
Normalize(batch) ==
    [r \in 1..Len(batch) |->
       LET norm == Norm(batch[r])
       IN  [i \in 1..Len(batch[r]) |-> Div(batch[r][i], norm)]]

\* ToList without the [0]: the whole batch, a list holding one row
ToListWholeBatch(batch) == batch

\* image_features[0].tolist()
ToList(batch) == batch[1]

\* The squared Euclidean norm of an embedding of finite values, in Scale^2
NormSq(emb) == SumSq(emb, 1, Len(emb))

AllFinite(emb) == \A i \in 1..Len(emb) : emb[i].k = "fin"

\* The rows model.get_image_features can return for one image: ProjectionDim
\* components, the first lead of them a and the rest b.
FeatureRow(lead, a, b) ==
    [i \in 1..ProjectionDim |-> Fin(IF i <= lead THEN a ELSE b)]

FeatureRows ==
    {FeatureRow(lead, a, b) :
        lead \in {0, 1}, a \in (-FeatMax)..FeatMax, b \in (-FeatMax)..FeatMax}

VARIABLES argv, env, pc, HAS_CLIP, image_path, model, processor, image,
          inputs, image_features, embedding, result, stdout, stderr,
          exitcode, calls, raised

vars == <<argv, env, pc, HAS_CLIP, image_path, model, processor, image,
          inputs, image_features, embedding, result, stdout, stderr,
          exitcode, calls, raised>>

\* ------------------------------------------------------------ the program
FileStates == {"image", "missing", "corrupt"}

Envs == [torch : BOOLEAN, PIL : BOOLEAN, transformers : BOOLEAN, file : FileStates]

Init ==
    /\ argv \in Argvs
    /\ env \in Envs
    /\ pc = "import_torch"
    /\ HAS_CLIP = FALSE
    /\ image_path = <<>>
    /\ model = "None"
    /\ processor = "None"
    /\ image = "None"
    /\ inputs = "None"
    /\ image_features = <<>>
    /\ embedding = <<>>
    /\ result = <<>>
    /\ stdout = <<>>
    /\ stderr = <<>>
    /\ exitcode = -1
    /\ calls = <<>>
    /\ raised = <<>>

\* An exception nothing catches: the interpreter prints the traceback to
\* standard error and the process ends with exit status 1.
Crash(exc) ==
    /\ stderr' = Append(stderr, RawLine(<<"Traceback (most recent call last): ", exc>>))
    /\ exitcode' = 1
    /\ pc' = "exited"

\* import torch
ImportTorch ==
    /\ pc = "import_torch"
    /\ \/ env.torch /\ pc' = "import_PIL" /\ UNCHANGED <<stderr, exitcode>>
       \/ ~env.torch /\ Crash("ModuleNotFoundError: No module named 'torch'")
    /\ UNCHANGED <<argv, env, HAS_CLIP, image_path, model, processor, image, inputs,
                   image_features, embedding, result, stdout, calls, raised>>

\* from PIL import Image
ImportPIL ==
    /\ pc = "import_PIL"
    /\ \/ env.PIL /\ pc' = "import_transformers" /\ UNCHANGED <<stderr, exitcode>>
       \/ ~env.PIL /\ Crash("ModuleNotFoundError: No module named 'PIL'")
    /\ UNCHANGED <<argv, env, HAS_CLIP, image_path, model, processor, image, inputs,
                   image_features, embedding, result, stdout, calls, raised>>

WarningLine ==
    RawLine(<<"Warning: transformers not installed. Install with: pip install transformers torch pillow">>)

\* try: from transformers import CLIPProcessor, CLIPModel ... except ImportError
ImportTransformers ==
    /\ pc = "import_transformers"
    /\ \/ env.transformers /\ HAS_CLIP' = TRUE /\ UNCHANGED stderr
       \/ ~env.transformers /\ HAS_CLIP' = FALSE /\ stderr' = Append(stderr, WarningLine)
    /\ pc' = "main"
    /\ UNCHANGED <<argv, env, image_path, model, processor, image, inputs,
                   image_features, embedding, result, stdout, exitcode, calls, raised>>

UsageError == <<Item(<<"error">>, PyStr(<<"Usage: clip2_process.py <image_path>">>))>>

\* if __name__ == "__main__": the argument check and the call of process_image
Main ==
    /\ pc = "main"
    /\ \/ /\ Len(argv) < 2
          /\ stderr' = Append(stderr, Dumps(UsageError))
          /\ exitcode' = 1
          /\ pc' = "exited"
          /\ UNCHANGED <<image_path, calls>>
       \/ /\ Len(argv) >= 2
          /\ image_path' = argv[2]
          /\ calls' = Append(calls, "process_image")
          /\ pc' = "process_image"
          /\ UNCHANGED <<stderr, exitcode>>
    /\ UNCHANGED <<argv, env, HAS_CLIP, model, processor, image, inputs,
                   image_features, embedding, result, stdout, raised>>

\* Placeholder with the caption of the success path
PlaceholderSuccessCaption(path) ==
    <<Item(<<"caption">>, PyStr(<<"Image from ">> \o path)),
      Item(<<"embedding">>, PyList(ZeroEmbedding))>>

\* The placeholder process_image returns without the library
Placeholder(path) ==
    <<Item(<<"caption">>, PyStr(<<"Image: ">> \o path)),
      Item(<<"embedding">>, PyList(ZeroEmbedding))>>

\* ErrorDocument with the bare message as the caption
ErrorDocumentBareMessage(msg) ==
    <<Item(<<"caption">>, PyStr(msg)),
      Item(<<"embedding">>, PyList(ZeroEmbedding))>>

\* The document of process_image's except branch
ErrorDocument(msg) ==
    <<Item(<<"caption">>, PyStr(<<"Error processing image: ">> \o msg)),
      Item(<<"embedding">>, PyList(ZeroEmbedding))>>

\* The document of process_image's success path
SuccessDocument(path, emb) ==
    <<Item(<<"caption">>, PyStr(<<"Image from ">> \o path)),
      Item(<<"embedding">>, PyList(emb))>>

\* ProcessImageFallback with the image opened before the HAS_CLIP test
ProcessImageFallbackOpensImage ==
    /\ pc = "process_image"
    /\ ~HAS_CLIP
    /\ calls' = Append(calls, "Image.open")
    /\ image' = "RGB"
    /\ result' = <<Item(<<"caption">>, PyStr(<<"Image: ">> \o image_path)),
                   Item(<<"embedding">>, PyList(ZeroEmbedding))>>
    /\ pc' = "print"
    /\ UNCHANGED <<argv, env, HAS_CLIP, image_path, model, processor, inputs,
                   image_features, embedding, stdout, stderr, exitcode, raised>>

\* process_image, not HAS_CLIP
ProcessImageFallback ==
    /\ pc = "process_image"
    /\ ~HAS_CLIP
    /\ result' = Placeholder(image_path)
    /\ pc' = "print"
    /\ UNCHANGED <<argv, env, HAS_CLIP, image_path, model, processor, image, inputs,
                   image_features, embedding, stdout, stderr, exitcode, calls, raised>>

\* What str(e) can be for an exception a library call raises
ExcMessages(step) == {<<step, " failed">>, <<step, ": ", "\"", "\\", "\n">>}

\* Except with the try block run again after a failure
ExceptRetry(step, msg) ==
    /\ raised' = Append(raised, [step |-> step, msg |-> msg])
    /\ result' = <<Item(<<"caption">>, PyStr(<<"Error processing image: ">> \o msg)),
                   Item(<<"embedding">>, PyList(ZeroEmbedding))>>
    /\ pc' = "process_image"

\* except Exception as e: the exception raised at step inside the try block
Except(step, msg) ==
    /\ raised' = Append(raised, [step |-> step, msg |-> msg])
    /\ result' = ErrorDocument(msg)
    /\ pc' = "print"

\* model = CLIPModel.from_pretrained(model_name)
LoadModel ==
    /\ pc = "process_image"
    /\ HAS_CLIP
    /\ calls' = Append(calls, "CLIPModel.from_pretrained")
    /\ \/ /\ model' = "CLIPModel"
          /\ pc' = "load_processor"
          /\ UNCHANGED <<result, raised>>
       \/ /\ \E msg \in ExcMessages("CLIPModel.from_pretrained") :
                Except("CLIPModel.from_pretrained", msg)
          /\ UNCHANGED model
    /\ UNCHANGED <<argv, env, HAS_CLIP, image_path, processor, image, inputs,
                   image_features, embedding, stdout, stderr, exitcode>>

\* processor = CLIPProcessor.from_pretrained(model_name)
LoadProcessor ==
    /\ pc = "load_processor"
    /\ calls' = Append(calls, "CLIPProcessor.from_pretrained")
    /\ \/ /\ processor' = "CLIPProcessor"
          /\ pc' = "open_image"
          /\ UNCHANGED <<result, raised>>
       \/ /\ \E msg \in ExcMessages("CLIPProcessor.from_pretrained") :
                Except("CLIPProcessor.from_pretrained", msg)
          /\ UNCHANGED processor
    /\ UNCHANGED <<argv, env, HAS_CLIP, image_path, model, image, inputs,
                   image_features, embedding, stdout, stderr, exitcode>>

\* image = Image.open(image_path).convert("RGB")
OpenImage ==
    /\ pc = "open_image"
    /\ calls' = Append(calls, "Image.open")
    /\ \/ /\ env.file = "image"
          /\ image' = "RGB"
          /\ pc' = "preprocess"
          /\ UNCHANGED <<result, raised>>
       \/ /\ env.file = "image"
          /\ \E msg \in ExcMessages("Image.open") : Except("Image.open", msg)
          /\ UNCHANGED image
       \/ /\ env.file = "missing"
          /\ Except("Image.open",
                    <<"[Errno 2] No such file or directory: '">> \o image_path \o <<"'">>)
          /\ UNCHANGED image
       \/ /\ env.file = "corrupt"
          /\ Except("Image.open",
                    <<"cannot identify image file '">> \o image_path \o <<"'">>)
          /\ UNCHANGED image
    /\ UNCHANGED <<argv, env, HAS_CLIP, image_path, model, processor, inputs,
                   image_features, embedding, stdout, stderr, exitcode>>

\* inputs = processor(images=image, return_tensors="pt")
Preprocess ==
    /\ pc = "preprocess"
    /\ calls' = Append(calls, "processor")
    /\ \/ /\ inputs' = "pixel_values"
          /\ pc' = "forward"
          /\ UNCHANGED <<result, raised>>
       \/ /\ \E msg \in ExcMessages("processor") : Except("processor", msg)
          /\ UNCHANGED inputs
    /\ UNCHANGED <<argv, env, HAS_CLIP, image_path, model, processor, image,
                   image_features, embedding, stdout, stderr, exitcode>>

\* with torch.no_grad(): image_features = model.get_image_features(**inputs)
GetImageFeatures ==
    /\ pc = "forward"
    /\ calls' = Append(calls, "model.get_image_features")
    /\ \/ /\ \E row \in FeatureRows : image_features' = <<row>>
          /\ pc' = "normalize"
          /\ UNCHANGED <<result, raised>>
       \/ /\ \E msg \in ExcMessages("model.get_image_features") :
                Except("model.get_image_features", msg)
          /\ UNCHANGED image_features
    /\ UNCHANGED <<argv, env, HAS_CLIP, image_path, model, processor, image, inputs,
                   embedding, stdout, stderr, exitcode>>

\* image_features = image_features / image_features.norm(dim=-1, keepdim=True)
NormalizeFeatures ==
    /\ pc = "normalize"
    /\ calls' = Append(calls, "image_features.norm")
    /\ \/ /\ image_features' = Normalize(image_features)
          /\ pc' = "tolist"
          /\ UNCHANGED <<result, raised>>
       \/ /\ \E msg \in ExcMessages("image_features.norm") :
                Except("image_features.norm", msg)
          /\ UNCHANGED image_features
    /\ UNCHANGED <<argv, env, HAS_CLIP, image_path, model, processor, image, inputs,
                   embedding, stdout, stderr, exitcode>>

\* embedding = image_features[0].tolist(), then the caption and the return
EmbeddingToList ==
    /\ pc = "tolist"
    /\ calls' = Append(calls, "tolist")
    /\ \/ /\ embedding' = ToList(image_features)
          /\ result' = SuccessDocument(image_path, ToList(image_features))
          /\ pc' = "print"
          /\ UNCHANGED raised
       \/ /\ \E msg \in ExcMessages("tolist") : Except("tolist", msg)
          /\ UNCHANGED embedding
    /\ UNCHANGED <<argv, env, HAS_CLIP, image_path, model, processor, image, inputs,
                   image_features, stdout, stderr, exitcode>>

\* print(json.dumps(result)), after which the script ends
PrintResult ==
    /\ pc = "print"
    /\ stdout' = Append(stdout, Dumps(result))
    /\ exitcode' = 0
    /\ pc' = "exited"
    /\ UNCHANGED <<argv, env, HAS_CLIP, image_path, model, processor, image, inputs,
                   image_features, embedding, result, stderr, calls, raised>>

Next ==
    \/ ImportTorch
    \/ ImportPIL
    \/ ImportTransformers
    \/ Main
    \/ ProcessImageFallback
    \/ LoadModel
    \/ LoadProcessor
    \/ OpenImage
    \/ Preprocess
    \/ GetImageFeatures
    \/ NormalizeFeatures
    \/ EmbeddingToList
    \/ PrintResult

Spec == Init /\ [][Next]_vars

\* ----------------------------------------------------------------- claims
Exited == pc = "exited"
GivenPath == Len(argv) >= 2
Returned == result # <<>>

\* External calls of the library path, in the order of the source text
StepOrder ==
    <<"process_image", "CLIPModel.from_pretrained", "CLIPProcessor.from_pretrained",
      "Image.open", "processor", "model.get_image_features", "image_features.norm",
      "tolist">>

IsPrefix(s, t) == Len(s) <= Len(t) /\ SubSeq(t, 1, Len(s)) = s

StartsWith(s, prefix) == IsPrefix(prefix, s)

Called(name) == \E i \in 1..Len(calls) : calls[i] = name

IsZeros512(l) == Len(l) = 512 /\ \A i \in 1..Len(l) : l[i] = [k |-> "fin", v |-> 0]

HasShape(doc) ==
    /\ Len(doc) = 2
    /\ doc[1].k = <<"caption">>
    /\ doc[1].v.ty = "str"
    /\ doc[2].k = <<"embedding">>
    /\ doc[2].v.ty = "list"

\* A line of a stream that a strict decoder reads as an object with the key
HasJsonWithKey(stream, key) ==
    \E i \in 1..Len(stream) :
        LET d == Loads(stream[i])
        IN  d.ok /\ \E j \in 1..Len(d.doc) : d.doc[j].k = key

\* C1: a run started without an image path argument ends with exit code 1,
\* a JSON object with an "error" key on stderr, nothing on stdout, and
\* process_image never called.
C1_NoArgumentUsageError ==
    (Exited /\ ~GivenPath) =>
        /\ exitcode = 1
        /\ HasJsonWithKey(stderr, <<"error">>)
        /\ stdout = <<>>
        /\ ~Called("process_image")

\* C2: with the library available, an exception raised at any step of
\* process_image ends in a returned document whose caption starts with
\* "Error processing image:" and whose embedding is 512 zeros, and the
\* process goes on to print it and exit normally instead of crashing.
C2_ExceptionBecomesErrorDocument ==
    raised # <<>> =>
        /\ HAS_CLIP
        /\ pc \in {"print", "exited"}
        /\ HasShape(result)
        /\ StartsWith(result[1].v.s, <<"Error processing image: ">>)
        /\ IsZeros512(result[2].v.l)
        /\ exitcode # 1
        /\ \A i \in 1..Len(stderr) : stderr[i][1].t # "raw"
        /\ Exited => (exitcode = 0 /\ Len(stdout) = 1)

\* C2 witness: the forward pass raised and the run has ended
C2_Witness ==
    /\ Exited
    /\ raised # <<>>
    /\ raised[1].step = "model.get_image_features"

\* C3: without the library the returned document is exactly the caption
\* "Image: <path>", the path copied unchanged, and 512 zeros; the printed
\* line decodes to the same document.
C3_PlaceholderDocument ==
    (Returned /\ ~HAS_CLIP) =>
        /\ HasShape(result)
        /\ result[1].v.s = <<"Image: ">> \o argv[2]
        /\ IsZeros512(result[2].v.l)
        /\ Exited => (Len(stdout) = 1 /\ Loads(stdout[1]) = [ok |-> TRUE, doc |-> result])

\* C3 witness: a path with a character json.dumps escapes went through the
\* fallback and was printed
C3_Witness ==
    /\ Exited
    /\ ~HAS_CLIP
    /\ Returned
    /\ Len(stdout) = 1
    /\ \E i \in 1..Len(argv[2]) : argv[2][i] \in SpecialChars

\* C4: a run given an image path writes exactly one JSON document to stdout,
\* never none and never more than one.
C4_ExactlyOneDocument ==
    /\ Len(stdout) <= 1
    /\ (Exited /\ GivenPath) => Len(stdout) = 1

\* C5: a run given an image path ends with exit code 0; exit code 1 occurs
\* only when the argument is missing.
C5_ExitCodeZeroWithPath ==
    /\ (Exited /\ GivenPath) => exitcode = 0
    /\ exitcode = 1 => ~GivenPath

\* C6: every document process_image returns has exactly the two fields
\* caption and embedding, and embedding is a list of exactly 512 floats.
C6_DocumentShape ==
    Returned =>
        /\ Keys(result) = <<<<"caption">>, <<"embedding">>>>
        /\ result[1].v.ty = "str"
        /\ result[2].v.ty = "list"
        /\ Len(result[2].v.l) = 512
        /\ \A i \in 1..Len(result[2].v.l) : result[2].v.l[i].k \in {"fin", "nan", "inf"}

\* C6 witness: the success branch returned its document
C6_Witness ==
    /\ Returned
    /\ HAS_CLIP
    /\ raised = <<>>
    /\ StartsWith(result[1].v.s, <<"Image from ">>)

\* C7: every line written to stdout is valid single-line JSON for a strict
\* decoder, whatever the path and the feature vector.
C7_StdoutIsValidJson ==
    \A i \in 1..Len(stdout) : Loads(stdout[i]).ok /\ SingleLine(stdout[i])

\* C8: on the success path the embedding has length 512 and Euclidean norm
\* 1.0 within one percent, and the caption is "Image from <path>".
C8_UnitNormEmbedding ==
    (Returned /\ HAS_CLIP /\ raised = <<>>) =>
        /\ result[1].v.s = <<"Image from ">> \o argv[2]
        /\ Len(result[2].v.l) = 512
        /\ AllFinite(result[2].v.l)
        /\ NormSq(result[2].v.l) >= Scale * Scale - (Scale * Scale) \div 50
        /\ NormSq(result[2].v.l) <= Scale * Scale + (Scale * Scale) \div 50

\* Auxiliary: an embedding of finite components, which is what a feature
\* vector of non-zero norm gives, has norm 1.0 within one percent.
UnitNormWhenNonZero ==
    (Returned /\ HAS_CLIP /\ raised = <<>> /\ AllFinite(result[2].v.l)) =>
        /\ NormSq(result[2].v.l) >= Scale * Scale - (Scale * Scale) \div 50
        /\ NormSq(result[2].v.l) <= Scale * Scale + (Scale * Scale) \div 50

\* C9: without the library process_image returns the placeholder and does
\* nothing else: no file is opened, whatever its state, and no model or
\* processor is loaded.
C9_FallbackTouchesNothing ==
    (Returned /\ ~HAS_CLIP) =>
        /\ calls = <<"process_image">>
        /\ raised = <<>>
        /\ model = "None"
        /\ processor = "None"
        /\ image = "None"
        /\ inputs = "None"
        /\ image_features = <<>>
        /\ StartsWith(result[1].v.s, <<"Image: ">>)

\* C9 witness: the fallback returned for a path that does not exist
C9_Witness ==
    /\ Returned
    /\ ~HAS_CLIP
    /\ env.file = "missing"
    /\ Exited

\* C10: the library path calls its steps in the fixed order, stops at the
\* first failure without retrying, reports that failure's message, opens
\* the image only after model and processor are loaded, and loads the model
\* even when the path does not exist.
C10_FixedOrderFirstFailure ==
    /\ IsPrefix(calls, StepOrder)
    /\ Len(raised) <= 1
    /\ raised # <<>> =>
          /\ raised[1].step = calls[Len(calls)]
          /\ pc \in {"print", "exited"}
          /\ result[1].v.s = <<"Error processing image: ">> \o raised[1].msg
    /\ Called("Image.open") => (model = "CLIPModel" /\ processor = "CLIPProcessor")
    /\ (HAS_CLIP /\ Returned /\ env.file = "missing") => Called("CLIPModel.from_pretrained")

\* C10 witness: a path that does not exist failed at Image.open, after both
\* loads, and the run has ended
C10_Witness ==
    /\ Exited
    /\ env.file = "missing"
    /\ raised # <<>>
    /\ calls = SubSeq(StepOrder, 1, 4)

====
